---- MODULE Spec2Model ----
(***************************************************************************)
(* Model of the serialized execution queue of the Discord/ComfyUI bridge   *)
(* (main.py): the module-level task_queue / is_generating state, the two   *)
(* enqueue handlers (comfy_command, panel modal_submit), the process_queue *)
(* coroutine and the queue_cleanup_task sweep.                             *)
(*                                                                         *)
(* asyncio runs one coroutine at a time and switches only at an await, so  *)
(* every action below is the code that runs between two suspension points  *)
(* of one coroutine.  queue_lock is never held across an await (lines      *)
(* 197-202 hold no await), so it never blocks and needs no state.          *)
(***************************************************************************)
EXTENDS Integers, Sequences, FiniteSets, TLC

\* Number of generation requests the front end issues (request ids 1..MaxJobs,
\* numbered in the order the handlers are entered).
MaxJobs == 2

\* Number of iterations of the queue_cleanup_task loop that are explored.
MaxSweeps == 1

Jobs == 1..MaxJobs

VARIABLES
    task_queue,      \* main.py:69   deque of pending tasks (request ids)
    is_generating,   \* main.py:70   the in-flight flag
    stage,           \* per request: where its task is (pending, or the await its process_queue run is parked on)
    handler,         \* per request: position of its enqueue handler
    queue_position,  \* per request: the position reported to the requester (0: none yet)
    triggers,        \* process_queue tasks created by asyncio.create_task and not yet started
    sink,            \* Results that reached the requesters, in order of arrival: <<job, kind>>
    sweeps,          \* iterations of the queue_cleanup_task loop so far
    exc,             \* per request: the exception its process_queue run is handling, <<where, kind>>
    stream,          \* per request: what its wait_for_completion call is waiting on
    waited           \* per request: the (success, outputs) that wait_for_completion returned to its run

qvars == <<task_queue, is_generating, stage, handler, queue_position, triggers, sink, sweeps, exc,
           stream, waited>>

\* One call of ComfyUIClient.wait_for_completion(prompt_id, timeout)
\* (comfyui_client.py:208-326) and the backend it talks to.
VARIABLES
    wpc,             \* the await the call is parked on ("idle": no call, "returned": it returned)
    websocket,       \* the connection of `async with websockets.connect(...)`: none / open / closed
    now,             \* asyncio.get_event_loop().time(), in seconds since the call was entered
    start_time,      \* comfyui_client.py:228 and :314
    queue_remaining, \* comfyui_client.py:219  <<>> for None, <<n>> for the number n
    finished_nodes,  \* comfyui_client.py:220
    message,         \* what the last websocket.recv() returned or raised
    history,         \* what the last get_history(prompt_id) returned
    backend_history, \* the record the backend holds under /history/{prompt_id}
    result           \* the value returned by the call, with what made it return

dvars == <<wpc, websocket, now, start_time, queue_remaining, finished_nodes, message,
           history, backend_history, result>>

\* The metadata cache of the ComfyUIClient object (comfyui_client.py:30-31, 46-111).
VARIABLES
    samplers,        \* self._samplers: <<>> for None, <<list>> for a list
    schedulers,      \* self._schedulers, likewise
    mpc,             \* the metadata call that is waiting for get_object_info, or "idle"
    requests,        \* the GET /object_info requests made so far, by the call that made them
    response,        \* the last answer to GET /object_info
    returned         \* the last metadata call that returned and its value

mvars == <<samplers, schedulers, mpc, requests, response, returned>>

vars == <<qvars, dvars, mvars>>

\* The awaits a process_queue run can be parked on.
\*   submit       : await generate_image(params) (line 217), in queue_prompt
\*                  (comfyui_client.py:340)
\*   wait         : the same, in wait_for_completion (comfyui_client.py:343)
\*   fetch        : the same, in get_image (comfyui_client.py:360)
\*   send_ok      : await followup.send(embed, file)             (line 236)
\*   send_timeout : await followup.send(error_embed), timeout    (line 248)
\*   send_err     : await followup.send(error_embed), failure    (line 258)
InFlightStages == {"submit", "wait", "fetch", "send_ok", "send_timeout", "send_err"}

\* "none": not (yet) enqueued; "queued": in task_queue; "done": the run reached
\* the end of its finally block; "crashed": the run ended before its try block.
Stages == {"none", "queued", "done", "crashed"} \cup InFlightStages

HandlerStates == {"idle", "ack", "done"}

\* What ended the awaits inside `async with asyncio.timeout(300)`:
\*   budget   : the 300 s of asyncio.timeout expired (TimeoutError)
\*   deadline : the ClientTimeout(total=...) of one HTTP request expired; aiohttp
\*              raises asyncio.TimeoutError, which is not an aiohttp.ClientError
\*   error    : any other exception
ExcKinds == {"budget", "deadline", "error"}

Exceptions == {"none"} \cup ({"submit", "wait", "fetch", "send_ok"} \X ExcKinds)

\* Where the wait_for_completion call of a run stands (comfyui_client.py:222-310):
\*   none    : no call, or the call is inside websockets.connect
\*   open    : inside `async with websockets.connect(...)`, the connection open
\*   polling : in _poll_history, the connection closed or never opened
StreamStates == {"none", "open", "polling"}

\* The outputs mapping of a wait_for_completion return value, by what
\* generate_image reads from it (comfyui_client.py:345-359):
\*   None   : no mapping (the call returned False, None)
\*   {}     : the empty mapping
\*   text   : node outputs, none of them with a non-empty 'images' list
\*   noname : a node output whose first image record has no filename
\*   imgA   : a node output whose first image record has a filename
OutputMappings == {"{}", "text", "noname", "imgA"}

\* comfyui_client.py:343: what `success, outputs = await wait_for_completion(...)`
\* can be bound to.
WaitReturns == {<<FALSE, "None">>} \cup {<<TRUE, o>> : o \in OutputMappings}

\* The wait has not returned (yet, or ever: it was cancelled).
NotReturned == <<>>

Running == {j \in Jobs : stage[j] \in InFlightStages}

----------------------------------------------------------------------------
(* Values of the completion detector *)

\* The `timeout` argument of wait_for_completion and _poll_history, in seconds.
TimeoutBudget == 6

\* comfyui_client.py:240  asyncio.wait_for(websocket.recv(), timeout=5.0)
RecvTimeout == 5

\* comfyui_client.py:326  await asyncio.sleep(2)
PollInterval == 2

\* How long the awaits of the call may take: opening the connection, the next
\* frame (always less than RecvTimeout) and one get_history request.
ConnectDelays == {0, 1}
MessageDelays == {0, 3}
HistoryDelays == {0, 1}

\* The node ids the backend reports.
Nodes == {"n1"}

\* Optional[int]: <<>> is None (or a key that is absent), <<n>> the number n.
None == <<>>
Some(n) == <<n>>

\* A frame returned by websocket.recv(), by what the code reads from it:
\*   type            data.get('type'); "badjson" is a text frame that is not JSON,
\*                   "binary" a bytes frame whose bytes are not an encoding of text
\*   prompt_id       msg_data.get('prompt_id'): of this call, of another, absent
\*   node            msg_data.get('node')
\*   images          has_images (comfyui_client.py:257-260)
\*   queue_remaining exec_info['queue_remaining'] when the key is there
Frame(t, p, n, i, q) ==
    [type |-> t, prompt_id |-> p, node |-> n, images |-> i, queue_remaining |-> q]

ExecutedFrames ==
    {Frame("executed", p, n, i, None) :
        p \in {"mine", "other", "absent"}, n \in Nodes \cup {"None"}, i \in BOOLEAN}

StatusFrames == {Frame("status", "absent", "None", FALSE, q) : q \in {None, Some(0), Some(1)}}

PlainFrames ==
    {Frame(t, "absent", "None", FALSE, None) :
        t \in {"progress", "unknown", "execution_error", "badjson", "binary"}}

Frames == ExecutedFrames \cup StatusFrames \cup PlainFrames

\* websocket.recv() returned no frame: no call yet, or the 5 s of wait_for expired.
NoMessage == Frame("none", "absent", "None", FALSE, None)

\* websocket.recv() raised websockets.ConnectionClosed.
ConnectionClosed == Frame("closed", "absent", "None", FALSE, None)

\* What get_history returns (comfyui_client.py:183-206): the dict stored under
\* prompt_id, or {} .  present: the dict is not empty; has_outputs: it has the
\* key 'outputs'; outputs: the value under that key.
Record(p, h, o) == [present |-> p, has_outputs |-> h, outputs |-> o]

EmptyRecord == Record(FALSE, FALSE, "None")

PopulatedRecords ==
    {Record(TRUE, FALSE, "None")} \cup {Record(TRUE, TRUE, o) : o \in {"{}", "imgA", "imgB"}}

Records == {EmptyRecord} \cup PopulatedRecords

\* No get_history call was made yet.
NoQuery == Record(FALSE, FALSE, "NoQuery")

\* The call's return value (success, outputs) and the statement that returned.
Result(s, o, c) == [success |-> s, outputs |-> o, cause |-> c]

NoResult == Result(FALSE, "None", "pending")

WaitStates ==
    {"idle", "connect", "recv", "history_263", "history_270", "history_281",
     "history_321", "sleep_326", "returned"}

\* The detector outside a call.
DetectorIdle ==
    /\ wpc = "idle"
    /\ websocket = "none"
    /\ now = 0
    /\ start_time = 0
    /\ queue_remaining = None
    /\ finished_nodes = {}
    /\ message = NoMessage
    /\ history = NoQuery
    /\ backend_history = EmptyRecord
    /\ result = NoResult

----------------------------------------------------------------------------
(* Values of the metadata calls *)

\* comfyui_client.py:66-72 and :78, the lists get_samplers falls back to.
DefaultSamplers ==
    <<"euler", "euler_ancestral", "heun", "heunpp2", "dpm_2", "dpm_2_ancestral", "lms",
      "dpm_fast", "dpm_adaptive", "dpmpp_2s_ancestral", "dpmpp_sde", "dpmpp_sde_gpu",
      "dpmpp_2m", "dpmpp_2m_sde", "dpmpp_2m_sde_gpu", "dpmpp_3m_sde", "dpmpp_3m_sde_gpu",
      "ddpm", "lcm", "ddim", "uni_pc", "uni_pc_bh2">>

ErrorSamplers == <<"euler", "euler_ancestral", "dpmpp_2m", "dpmpp_sde", "ddim">>

\* comfyui_client.py:101-104 and :110, the lists get_schedulers falls back to.
DefaultSchedulers ==
    <<"normal", "karras", "exponential", "sgm_uniform", "simple", "ddim_uniform", "beta">>

ErrorSchedulers == <<"normal", "karras", "exponential", "simple">>

\* A field of object_info['KSampler']['input']['required'] as .get reads it:
\* absent (also when one of the enclosing keys is absent), the empty list, or
\* a list whose first element is the list of options (which may have none).
Field(p, v) == [present |-> p, value |-> v]

SamplerFields ==
    {Field(FALSE, <<>>), Field(TRUE, <<>>), Field(TRUE, <<(<<"euler", "res_2s">>)>>),
     Field(TRUE, <<(<<"lcm">>)>>), Field(TRUE, <<(<<>>)>>)}

SchedulerFields ==
    {Field(FALSE, <<>>), Field(TRUE, <<>>), Field(TRUE, <<(<<"normal", "bong_tangent">>)>>),
     Field(TRUE, <<(<<"beta">>)>>), Field(TRUE, <<(<<>>)>>)}

\* What the backend and the network do with GET /object_info
\* (comfyui_client.py:33-44).
ObjectInfoResponses ==
    [transport : {"ok", "failed"}, status : {200, 500},
     sampler_name : SamplerFields, scheduler : SchedulerFields]

NoResponse ==
    [transport |-> "none", status |-> 0,
     sampler_name |-> Field(FALSE, <<>>), scheduler |-> Field(FALSE, <<>>)]

\* The client object after __init__ (comfyui_client.py:30-31), no call made.
NothingFetched ==
    /\ samplers = None
    /\ schedulers = None
    /\ mpc = "idle"
    /\ requests = <<>>
    /\ response = NoResponse
    /\ returned = <<>>

TypeOK ==
    /\ task_queue \in Seq(Jobs)
    /\ is_generating \in BOOLEAN
    /\ stage \in [Jobs -> Stages]
    /\ handler \in [Jobs -> HandlerStates]
    /\ queue_position \in [Jobs -> 0..MaxJobs]
    /\ triggers \in Nat
    /\ sink \in Seq(Jobs \X {"success", "failure", "timeout"})
    /\ sweeps \in 0..MaxSweeps
    /\ exc \in [Jobs -> Exceptions]
    /\ stream \in [Jobs -> StreamStates]
    /\ waited \in [Jobs -> WaitReturns \cup {NotReturned}]

Init ==
    /\ task_queue = <<>>
    /\ is_generating = FALSE
    /\ stage = [j \in Jobs |-> "none"]
    /\ handler = [j \in Jobs |-> "idle"]
    /\ queue_position = [j \in Jobs |-> 0]
    /\ triggers = 0
    /\ sink = <<>>
    /\ sweeps = 0
    /\ exc = [j \in Jobs |-> "none"]
    /\ stream = [j \in Jobs |-> "none"]
    /\ waited = [j \in Jobs |-> NotReturned]
    /\ DetectorIdle
    /\ NothingFetched

----------------------------------------------------------------------------
(* Enqueue handlers *)

\* The request sizes tried: the default, a preset and one over every limit.
Sizes == {<<512, 768>>, <<1024, 1024>>, <<4096, 4096>>}

\* main.py:113-117 SIZE_LIMITS
maxPixels == 1024 * 1536
maxWidth == 2048
maxHeight == 2048

\* main.py:291-293: the size check of comfy_command
SizeExceeded(size) ==
    \/ size[1] * size[2] > maxPixels
    \/ size[1] > maxWidth
    \/ size[2] > maxHeight

\* Requests are numbered in the order their handlers are entered.
IsNextRequest(j) ==
    /\ handler[j] = "idle"
    /\ \A k \in Jobs : k < j => handler[k] # "idle"

QueuePosition_beforeAppend(q, j) == Len(q)

\* main.py:317-318 / 842-843: task_queue.append(task); queue_position = len(task_queue)
\* (the queue after the append and the position read from it; no await in between)
QueuePosition(q, j) == Len(Append(q, j))

\* main.py:317-322 / 842-847: append, read the position, then suspend in
\* `await interaction.response.send_message(...)`.
Enqueue(j) ==
    /\ task_queue' = Append(task_queue, j)
    /\ queue_position' = [queue_position EXCEPT ![j] = QueuePosition(task_queue, j)]
    /\ stage' = [stage EXCEPT ![j] = "queued"]
    /\ handler' = [handler EXCEPT ![j] = "ack"]
    /\ UNCHANGED <<is_generating, triggers, sink, sweeps, exc>>

\* main.py:279-325 comfy_command up to its first await: a request over the size
\* limits is answered with an error message and touches nothing of the queue.
comfy_command(j) ==
    /\ IsNextRequest(j)
    /\ \E size \in Sizes :
         IF SizeExceeded(size) THEN UNCHANGED vars ELSE Enqueue(j)
    /\ UNCHANGED <<stream, waited, dvars, mvars>>

\* main.py:804-847 modal_submit up to its first await (sizes come from the
\* panel state; there is no size check on this path).
modal_submit(j) ==
    /\ IsNextRequest(j)
    /\ Enqueue(j)
    /\ UNCHANGED <<stream, waited, dvars, mvars>>

\* main.py:328 / 852: asyncio.create_task(process_queue()) after the
\* acknowledgement was sent.
TriggerAfterAck(t) == t + 1

\* main.py:322-328 / 847-852: send_message returned; the handler creates the
\* process_queue task and ends.
AckSent(j) ==
    /\ handler[j] = "ack"
    /\ handler' = [handler EXCEPT ![j] = "done"]
    /\ triggers' = TriggerAfterAck(triggers)
    /\ UNCHANGED <<task_queue, is_generating, stage, queue_position, sink, sweeps, exc>>
    /\ UNCHANGED <<stream, waited, dvars, mvars>>

\* main.py:322-325 / 847-850: send_message raised (interaction expired, HTTP
\* error); the exception leaves the handler, line 328 / 852 is not reached.
AckFailed(j) ==
    /\ handler[j] = "ack"
    /\ handler' = [handler EXCEPT ![j] = "done"]
    /\ UNCHANGED <<task_queue, is_generating, stage, queue_position, triggers,
                   sink, sweeps, exc>>
    /\ UNCHANGED <<stream, waited, dvars, mvars>>

----------------------------------------------------------------------------
(* process_queue *)

CanDispatch_ignoreFlag(g, q) == q # <<>>

\* main.py:198: the negation of `if is_generating or not task_queue: return`
CanDispatch(g, q) == ~g /\ q # <<>>

popleft_fromRight(q) == [task |-> q[Len(q)], rest |-> SubSeq(q, 1, Len(q) - 1)]

\* main.py:202: task = task_queue.popleft(): the task returned and the deque
\* left behind
popleft(q) == [task |-> Head(q), rest |-> Tail(q)]

\* main.py:197-217: a process_queue task starts.  Under the lock it returns at
\* once when a job is in flight or nothing is pending; otherwise it sets the
\* flag, pops the head and runs on to its first suspension inside
\* generate_image.
process_queue_start ==
    /\ triggers > 0
    /\ triggers' = triggers - 1
    /\ IF CanDispatch(is_generating, task_queue)
       THEN /\ is_generating' = TRUE
            /\ stage' = [stage EXCEPT ![popleft(task_queue).task] = "submit"]
            /\ task_queue' = popleft(task_queue).rest
       ELSE UNCHANGED <<is_generating, stage, task_queue>>
    /\ UNCHANGED <<handler, queue_position, sink, sweeps, exc>>
    /\ UNCHANGED <<stream, waited, dvars, mvars>>

ClearFlag_forgotten(g) == g

\* main.py:263: is_generating = False
ClearFlag(g) == FALSE

Rearm_never(q, t) == t

\* main.py:265-267: if task_queue: asyncio.create_task(process_queue())
Rearm(q, t) == IF q # <<>> THEN t + 1 ELSE t

\* main.py:262-267: the finally block, after which the coroutine ends.
Finally(j) ==
    /\ is_generating' = ClearFlag(is_generating)
    /\ triggers' = Rearm(task_queue, triggers)
    /\ stage' = [stage EXCEPT ![j] = "done"]
    /\ exc' = [exc EXCEPT ![j] = "none"]
    /\ waited' = [waited EXCEPT ![j] = NotReturned]
    /\ UNCHANGED <<task_queue, handler, queue_position, sweeps>>

ExceptBranch_generic(kind) == "send_err"

\* main.py:241-258: `except asyncio.TimeoutError` comes first and takes both
\* the expiry of asyncio.timeout(300) and an aiohttp total-timeout; every other
\* exception goes to `except Exception`.
ExceptBranch(kind) == IF kind \in {"budget", "deadline"} THEN "send_timeout" ELSE "send_err"

Raise_retry(j, kind) ==
    /\ stage' = [stage EXCEPT ![j] = "submit"]
    /\ UNCHANGED exc

\* An await inside the try block of process_queue ends with an exception: the
\* run goes to the send of the matching except branch.
Raise(j, kind) ==
    /\ stage' = [stage EXCEPT ![j] = ExceptBranch(kind)]
    /\ exc' = [exc EXCEPT ![j] = <<stage[j], kind>>]

Proceed_skipAhead(j, next) ==
    /\ stage' = [stage EXCEPT ![j] = "send_ok"]
    /\ UNCHANGED exc

\* An await inside the try block returns and the run goes on to the next one.
Proceed(j, next) ==
    /\ stage' = [stage EXCEPT ![j] = next]
    /\ UNCHANGED exc

\* comfyui_client.py:113-146 queue_prompt as seen by the run: it returns the
\* prompt_id, raises (transport error, status, no prompt_id), runs into its
\* ClientTimeout(total=30), or is cancelled by asyncio.timeout(300).
SubmitOutcomes == {"prompt_id", "error", "deadline", "budget"}

\* What the backend and the network do with the POST /prompt of line 130:
\*   transport : ok, an aiohttp.ClientError, or no answer within 30 s
\*   status    : response.status
\*   prompt_id : result.get('prompt_id'): an id, the empty string, or no such key
PromptResponses ==
    [transport : {"ok", "failed", "deadline"}, status : {200, 500},
     prompt_id : {"p1", "", "absent"}]

queue_prompt_anyAnswer(resp) ==
    IF resp.transport = "failed" THEN "error"
    ELSE IF resp.transport = "deadline" THEN "deadline"
    ELSE IF resp.status = 200 THEN "prompt_id"
    ELSE "error"

\* comfyui_client.py:128-146
queue_prompt(resp) ==
    IF resp.transport = "failed" THEN "error"
    ELSE IF resp.transport = "deadline" THEN "deadline"
    ELSE IF resp.status = 200
         THEN IF resp.prompt_id \in {"", "absent"} THEN "error" ELSE "prompt_id"
         ELSE "error"

\* comfyui_client.py:345  `not outputs`
Falsy(o) == o \in {"None", "{}"}

\* comfyui_client.py:350-359: some node output has 'images', a first record in
\* it, and a filename in that record.
HasFilename(o) == o = "imgA"

find_image_trusting(r) == IF r[1] THEN "image_found" ELSE "error"

\* comfyui_client.py:345-363: what generate_image does with the value the wait
\* returned: raise, or go on to get_image.
find_image(r) ==
    IF ~r[1] \/ Falsy(r[2]) THEN "error"
    ELSE IF HasFilename(r[2]) THEN "image_found"
    ELSE "error"

\* comfyui_client.py:343-346, 350-363 wait_for_completion and the search for
\* an image as seen by the run: an image to fetch was found, an Exception was
\* raised (failure, completion-wait timeout, no outputs, no image), or the wait
\* is cancelled by asyncio.timeout(300).
WaitOutcomes == {"image_found", "error", "budget"}

\* comfyui_client.py:148-181 get_image as seen by the run (ClientTimeout(total=60)).
FetchOutcomes == {"image", "error", "deadline", "budget"}

\* main.py:217 -> comfyui_client.py:340: queue_prompt resolves.
submit_done(j) ==
    /\ stage[j] = "submit"
    /\ \E outcome \in {queue_prompt(resp) : resp \in PromptResponses} \cup {"budget"} :
         IF outcome = "prompt_id" THEN Proceed(j, "wait") ELSE Raise(j, outcome)
    /\ UNCHANGED <<task_queue, is_generating, handler, queue_position, triggers,
                   sink, sweeps>>
    /\ UNCHANGED <<stream, waited, dvars, mvars>>

CallOver_leak(st, j) == st

\* comfyui_client.py:223-227: every way out of `async with websockets.connect`
\* (return, exception, the CancelledError sent by asyncio.timeout) runs its
\* __aexit__, which closes the connection; the call's locals end with it.
CallOver(st, j) == [st EXCEPT ![j] = "none"]

\* main.py:217 -> comfyui_client.py:343-363: wait_for_completion resolves.
wait_done(j) ==
    /\ stage[j] = "wait"
    /\ \E r \in WaitReturns \cup {NotReturned} :
         LET outcome == IF r = NotReturned THEN "budget" ELSE find_image(r) IN
             /\ outcome \in WaitOutcomes
             /\ waited' = [waited EXCEPT ![j] = r]
             /\ IF outcome = "image_found" THEN Proceed(j, "fetch") ELSE Raise(j, outcome)
    /\ stream' = CallOver(stream, j)
    /\ UNCHANGED <<task_queue, is_generating, handler, queue_position, triggers,
                   sink, sweeps>>
    /\ UNCHANGED <<dvars, mvars>>

\* comfyui_client.py:223-228: websockets.connect returned the connection.
wait_connected(j) ==
    /\ stage[j] = "wait"
    /\ stream[j] = "none"
    /\ stream' = [stream EXCEPT ![j] = "open"]
    /\ UNCHANGED <<task_queue, is_generating, stage, handler, queue_position, triggers,
                   sink, sweeps, exc>>
    /\ UNCHANGED <<waited, dvars, mvars>>

\* comfyui_client.py:307-310: websockets.connect or websocket.recv raised; the
\* `async with` block is left and the call goes on in _poll_history.
wait_fallback(j) ==
    /\ stage[j] = "wait"
    /\ stream[j] \in {"none", "open"}
    /\ stream' = [stream EXCEPT ![j] = "polling"]
    /\ UNCHANGED <<task_queue, is_generating, stage, handler, queue_position, triggers,
                   sink, sweeps, exc>>
    /\ UNCHANGED <<waited, dvars, mvars>>

\* main.py:217-236 -> comfyui_client.py:360-361: get_image resolves; with the
\* image the run goes on to the success send.
fetch_done(j) ==
    /\ stage[j] = "fetch"
    /\ \E outcome \in FetchOutcomes :
         IF outcome = "image" THEN Proceed(j, "send_ok") ELSE Raise(j, outcome)
    /\ UNCHANGED <<task_queue, is_generating, handler, queue_position, triggers,
                   sink, sweeps>>
    /\ UNCHANGED <<stream, waited, dvars, mvars>>

\* What the await of the success send (line 236, still inside
\* asyncio.timeout(300)) can do: return; raise without the message posted; or be
\* cancelled by the expiring timeout, the request having reached Discord
\* ("expired_posted") or not ("expired_lost").
SendOutcomes == {"sent", "raised", "expired_posted", "expired_lost"}

\* main.py:236-239, 241-258, 262-267
send_success_done(j) ==
    /\ stage[j] = "send_ok"
    /\ \E outcome \in SendOutcomes :
         CASE outcome = "sent" ->
                /\ sink' = Append(sink, <<j, "success">>)
                /\ Finally(j)
           [] outcome = "raised" ->
                /\ Raise(j, "error")
                /\ UNCHANGED <<task_queue, is_generating, handler, queue_position,
                               triggers, sink, sweeps, waited>>
           [] outcome = "expired_posted" ->
                /\ sink' = Append(sink, <<j, "success">>)
                /\ Raise(j, "budget")
                /\ UNCHANGED <<task_queue, is_generating, handler, queue_position,
                               triggers, sweeps, waited>>
           [] outcome = "expired_lost" ->
                /\ Raise(j, "budget")
                /\ UNCHANGED <<task_queue, is_generating, handler, queue_position,
                               triggers, sink, sweeps, waited>>
    /\ UNCHANGED <<stream, dvars, mvars>>

\* main.py:241-248, 262-267: the send of the timeout embed returns or raises
\* (the exception leaves the coroutine through the finally block).
send_timeout_done(j) ==
    /\ stage[j] = "send_timeout"
    /\ \E delivered \in BOOLEAN :
         sink' = IF delivered THEN Append(sink, <<j, "timeout">>) ELSE sink
    /\ Finally(j)
    /\ UNCHANGED <<stream, dvars, mvars>>

\* main.py:250-267: the send of the failure embed returns, or raises and is
\* swallowed by the bare except.
send_error_done(j) ==
    /\ stage[j] = "send_err"
    /\ \E delivered \in BOOLEAN :
         sink' = IF delivered THEN Append(sink, <<j, "failure">>) ELSE sink
    /\ Finally(j)
    /\ UNCHANGED <<stream, dvars, mvars>>

\* main.py:197-210 with an exception raised by the statements between the
\* lock block and the try block (lines 204-210): the flag is set, the task is
\* popped, and the exception ends the coroutine outside try/finally.
process_queue_raise ==
    /\ triggers > 0
    /\ CanDispatch(is_generating, task_queue)
    /\ triggers' = triggers - 1
    /\ is_generating' = TRUE
    /\ stage' = [stage EXCEPT ![popleft(task_queue).task] = "crashed"]
    /\ task_queue' = popleft(task_queue).rest
    /\ UNCHANGED <<handler, queue_position, sink, sweeps, exc>>
    /\ UNCHANGED <<stream, waited, dvars, mvars>>

----------------------------------------------------------------------------
(* Watchdog *)

SweepTrigger_never(g, q, t) == t

\* main.py:907-909: if not is_generating and task_queue: create_task(process_queue())
SweepTrigger(g, q, t) == IF ~g /\ q # <<>> THEN t + 1 ELSE t

\* main.py:901-909: one iteration of the queue_cleanup_task loop, after its
\* asyncio.sleep(300) returned.
queue_cleanup_task ==
    /\ sweeps < MaxSweeps
    /\ sweeps' = sweeps + 1
    /\ triggers' = SweepTrigger(is_generating, task_queue, triggers)
    /\ UNCHANGED <<task_queue, is_generating, stage, handler, queue_position, sink, exc>>
    /\ UNCHANGED <<stream, waited, dvars, mvars>>

----------------------------------------------------------------------------
(* wait_for_completion and _poll_history *)

TimedOut_early(t, st) == t - st >= PollInterval

\* comfyui_client.py:232 and :317  time() - start_time > timeout
TimedOut(t, st) == t - st > TimeoutBudget

IsMine_always(m) == TRUE

\* comfyui_client.py:249: a frame with no prompt_id is taken as this call's.
IsMine(m) == m.prompt_id \in {"mine", "absent"}

NeedsVerify_counterOnly(m, qr) == qr = Some(0)

NeedsVerify_imagesOnly(m, qr) == m.images

\* comfyui_client.py:262
\* has_images or (queue_remaining == 0 if queue_remaining is not None else False)
NeedsVerify(m, qr) == m.images \/ qr = Some(0)

IsTerminalMarker_never(m) == FALSE

\* comfyui_client.py:268  msg_data.get('node') is None
IsTerminalMarker(m) == m.node = "None"

StatusVerify_counterOnly(qr, fn) == qr = Some(0)

\* comfyui_client.py:280  queue_remaining == 0 and finished_nodes
StatusVerify(qr, fn) == qr = Some(0) /\ fn # {}

Truthy_any(rec) == TRUE

\* comfyui_client.py:264, 271, 282  `if history:`
Truthy(rec) == rec.present

\* comfyui_client.py:266, 273, 284  history.get('outputs', {})
StreamOutputs(rec) == IF rec.has_outputs THEN rec.outputs ELSE "{}"

\* comfyui_client.py:322  history and 'outputs' in history
PollSuccess(rec) == rec.present /\ rec.has_outputs

\* What the backend and the network do with the GET /history/{prompt_id} of
\* line 195 when the backend holds the record `stored` for the prompt:
\*   transport : ok, an aiohttp.ClientError, or no answer within 10 s
\*   status    : response.status
\*   body      : a JSON object with the prompt_id as key ("keyed"), one without
\*               it ("unkeyed"), or something response.json() or .get fails on
HistoryResponses(stored) ==
    [transport : {"ok", "failed", "deadline"}, status : {200, 404},
     body : {"keyed", "unkeyed", "malformed"}, record : {stored}]

get_history_raising(resp) ==
    IF resp.transport = "ok" /\ resp.status = 200 /\ resp.body = "keyed"
    THEN resp.record
    ELSE Record(FALSE, FALSE, "raised")

\* comfyui_client.py:193-206: history.get(prompt_id, {}) on a 200 answer, {} on
\* any other status and on every exception.
get_history(resp) ==
    IF resp.transport # "ok" THEN EmptyRecord
    ELSE IF resp.status # 200 THEN EmptyRecord
    ELSE IF resp.body = "malformed" THEN EmptyRecord
    ELSE IF resp.body = "unkeyed" THEN EmptyRecord
    ELSE resp.record

\* The values one get_history call can return while the backend holds `stored`.
Replies(stored) == {get_history(resp) : resp \in HistoryResponses(stored)}

\* A return statement of the call; leaving `async with websockets.connect`
\* closes the connection.
Return(s, o, c) ==
    /\ result' = Result(s, o, c)
    /\ wpc' = "returned"
    /\ websocket' = IF websocket = "open" THEN "closed" ELSE websocket

Listen_slack(t) ==
    IF t - start_time > TimeoutBudget + RecvTimeout
    THEN Return(FALSE, "None", "timeout")
    ELSE /\ wpc' = "recv"
         /\ UNCHANGED <<websocket, result>>

\* comfyui_client.py:230-241: back at the top of `while True` at time t: the
\* budget check, then the next websocket.recv().
Listen(t) ==
    IF TimedOut(t, start_time)
    THEN Return(FALSE, "None", "timeout")
    ELSE /\ wpc' = "recv"
         /\ UNCHANGED <<websocket, result>>

Poll_reconnect(t) ==
    /\ start_time' = t
    /\ wpc' = "connect"
    /\ result' = result
    /\ websocket' = "none"

Poll_streamOpen(t) ==
    /\ start_time' = t
    /\ wpc' = "history_321"
    /\ result' = result
    /\ websocket' = websocket

\* comfyui_client.py:307-321: `except Exception` leaves the connection, and
\* _poll_history starts its own clock at time t and issues its first query.
Poll(t) ==
    /\ start_time' = t
    /\ wpc' = IF TimedOut(t, t) THEN "returned" ELSE "history_321"
    /\ result' = IF TimedOut(t, t) THEN Result(FALSE, "None", "timeout") ELSE result
    /\ websocket' = IF websocket = "open" THEN "closed" ELSE websocket

\* comfyui_client.py:223-234: the connection is open, start_time is taken.
connect_ok ==
    /\ wpc = "connect"
    /\ \E d \in ConnectDelays :
        /\ now' = now + d
        /\ start_time' = now + d
        /\ websocket' = "open"
        /\ wpc' = IF TimedOut(now + d, now + d) THEN "returned" ELSE "recv"
        /\ result' = IF TimedOut(now + d, now + d)
                     THEN Result(FALSE, "None", "timeout") ELSE result
    /\ UNCHANGED <<queue_remaining, finished_nodes, message, history, backend_history>>
    /\ UNCHANGED <<qvars, mvars>>

\* comfyui_client.py:223, 307-310: websockets.connect raised.
connect_failed ==
    /\ wpc = "connect"
    /\ \E d \in ConnectDelays :
        /\ now' = now + d
        /\ Poll(now + d)
    /\ UNCHANGED <<queue_remaining, finished_nodes, message, history, backend_history>>
    /\ UNCHANGED <<qvars, mvars>>

\* comfyui_client.py:238-241, 300-302: no frame within RecvTimeout.
recv_timeout ==
    /\ wpc = "recv"
    /\ now' = now + RecvTimeout
    /\ message' = NoMessage
    /\ Listen(now + RecvTimeout)
    /\ UNCHANGED <<start_time, queue_remaining, finished_nodes, history, backend_history>>
    /\ UNCHANGED <<qvars, mvars>>

\* comfyui_client.py:238, 307-310: websocket.recv() raised (connection closed).
recv_failed ==
    /\ wpc = "recv"
    /\ \E d \in MessageDelays :
        /\ now' = now + d
        /\ Poll(now + d)
    /\ message' = ConnectionClosed
    /\ UNCHANGED <<queue_remaining, finished_nodes, history, backend_history>>
    /\ UNCHANGED <<qvars, mvars>>

\* comfyui_client.py:238-243: websocket.recv() returned the frame m after d seconds.
Received(m, d) ==
    /\ wpc = "recv"
    /\ now' = now + d
    /\ message' = m
    /\ UNCHANGED <<history, backend_history>>
    /\ UNCHANGED <<qvars, mvars>>

\* comfyui_client.py:247-273: an `executed` frame.
recv_executed ==
    \E m \in ExecutedFrames, d \in MessageDelays :
        /\ Received(m, d)
        /\ IF ~IsMine(m)
           THEN /\ Listen(now + d)
                /\ UNCHANGED finished_nodes
           ELSE /\ finished_nodes' = IF m.node # "None"
                                     THEN finished_nodes \cup {m.node}
                                     ELSE finished_nodes
                /\ IF NeedsVerify(m, queue_remaining)
                   THEN /\ wpc' = "history_263"
                        /\ UNCHANGED <<websocket, result>>
                   ELSE IF IsTerminalMarker(m)
                        THEN /\ wpc' = "history_270"
                             /\ UNCHANGED <<websocket, result>>
                        ELSE Listen(now + d)
        /\ UNCHANGED <<start_time, queue_remaining>>

\* comfyui_client.py:275-284: a `status` frame.
recv_status ==
    \E m \in StatusFrames, d \in MessageDelays :
        /\ Received(m, d)
        /\ IF m.queue_remaining # None
           THEN /\ queue_remaining' = m.queue_remaining
                /\ IF StatusVerify(m.queue_remaining, finished_nodes)
                   THEN /\ wpc' = "history_281"
                        /\ UNCHANGED <<websocket, result>>
                   ELSE Listen(now + d)
           ELSE /\ Listen(now + d)
                /\ UNCHANGED queue_remaining
        /\ UNCHANGED <<start_time, finished_nodes>>

\* comfyui_client.py:287-292: a `progress` frame; and a frame of a type that no
\* branch of the if/elif chain names.
recv_progress ==
    \E m \in {f \in PlainFrames : f.type \in {"progress", "unknown"}}, d \in MessageDelays :
        /\ Received(m, d)
        /\ Listen(now + d)
        /\ UNCHANGED <<start_time, queue_remaining, finished_nodes>>

recv_execution_error_ignored ==
    \E m \in {f \in PlainFrames : f.type = "execution_error"}, d \in MessageDelays :
        /\ Received(m, d)
        /\ Listen(now + d)
        /\ UNCHANGED <<start_time, queue_remaining, finished_nodes>>

\* comfyui_client.py:295-298: an `execution_error` frame.
recv_execution_error ==
    \E m \in {f \in PlainFrames : f.type = "execution_error"}, d \in MessageDelays :
        /\ Received(m, d)
        /\ Return(FALSE, "None", "execution_error")
        /\ UNCHANGED <<start_time, queue_remaining, finished_nodes>>

\* comfyui_client.py:243, 303-305: json.loads raised JSONDecodeError on the text.
recv_badjson ==
    \E m \in {f \in PlainFrames : f.type = "badjson"}, d \in MessageDelays :
        /\ Received(m, d)
        /\ Listen(now + d)
        /\ UNCHANGED <<start_time, queue_remaining, finished_nodes>>

\* comfyui_client.py:243, 307-310: json.loads decodes a bytes frame before it
\* parses it; bytes that are not encoded text raise UnicodeDecodeError, which is
\* a ValueError but no JSONDecodeError, so the outer `except Exception` runs.
recv_binary ==
    \E m \in {f \in PlainFrames : f.type = "binary"}, d \in MessageDelays :
        /\ Received(m, d)
        /\ Poll(now + d)
        /\ UNCHANGED <<queue_remaining, finished_nodes>>

\* A get_history call of the streaming path returned rec after d seconds.
\* comfyui_client.py:263-273 and 281-284
Verified(at, rec, d) ==
    /\ wpc = at
    /\ now' = now + d
    /\ history' = rec
    /\ IF Truthy(rec)
       THEN Return(TRUE, StreamOutputs(rec), "success")
       ELSE IF at = "history_263" /\ IsTerminalMarker(message)
            THEN /\ wpc' = "history_270"
                 /\ UNCHANGED <<websocket, result>>
            ELSE Listen(now + d)
    /\ UNCHANGED <<start_time, queue_remaining, finished_nodes, message, backend_history>>
    /\ UNCHANGED <<qvars, mvars>>

history_263 == \E rec \in Replies(backend_history), d \in HistoryDelays : Verified("history_263", rec, d)

history_270 == \E rec \in Replies(backend_history), d \in HistoryDelays : Verified("history_270", rec, d)

history_281 == \E rec \in Replies(backend_history), d \in HistoryDelays : Verified("history_281", rec, d)

\* comfyui_client.py:321-326: the get_history call of _poll_history returned.
history_321 ==
    /\ wpc = "history_321"
    /\ \E rec \in Replies(backend_history), d \in HistoryDelays :
        /\ now' = now + d
        /\ history' = rec
        /\ IF PollSuccess(rec)
           THEN Return(TRUE, rec.outputs, "success")
           ELSE /\ wpc' = "sleep_326"
                /\ UNCHANGED <<websocket, result>>
    /\ UNCHANGED <<start_time, queue_remaining, finished_nodes, message, backend_history>>
    /\ UNCHANGED <<qvars, mvars>>

\* comfyui_client.py:326, 316-321: asyncio.sleep(2) returned; the budget check,
\* then the next query.
sleep_326 ==
    /\ wpc = "sleep_326"
    /\ now' = now + PollInterval
    /\ IF TimedOut(now + PollInterval, start_time)
       THEN Return(FALSE, "None", "timeout")
       ELSE /\ wpc' = "history_321"
            /\ UNCHANGED <<websocket, result>>
    /\ UNCHANGED <<start_time, queue_remaining, finished_nodes, message, history,
                   backend_history>>
    /\ UNCHANGED <<qvars, mvars>>

\* comfyui_client.py:343, 208-223: generate_image calls wait_for_completion for
\* a prompt the backend may or may not have finished already.
wait_for_completion ==
    /\ wpc = "idle"
    /\ wpc' = "connect"
    /\ backend_history' \in Records
    /\ UNCHANGED <<websocket, now, start_time, queue_remaining, finished_nodes, message,
                   history, result>>
    /\ UNCHANGED <<qvars, mvars>>

\* The backend finishes the prompt and stores its history record.
backend_stores_history ==
    /\ wpc \notin {"idle", "returned"}
    /\ backend_history = EmptyRecord
    /\ backend_history' \in PopulatedRecords
    /\ UNCHANGED <<wpc, websocket, now, start_time, queue_remaining, finished_nodes, message,
                   history, result>>
    /\ UNCHANGED <<qvars, mvars>>

----------------------------------------------------------------------------
(* get_samplers and get_schedulers *)

Cached_never(cache) == FALSE

\* comfyui_client.py:48 and :83  `if self._samplers is not None`
Cached(cache) == cache # None

\* comfyui_client.py:33-44: get_object_info raises on a ClientError and on a
\* status other than 200.
ObjectInfoRaises(resp) == resp.transport # "ok" \/ resp.status # 200

\* comfyui_client.py:59 and :94
\* sampler_info and isinstance(sampler_info, list) and len(sampler_info) > 0
Usable(field) == field.present /\ field.value # <<>>

get_samplers_noDefault(resp) ==
    IF ~ObjectInfoRaises(resp) /\ Usable(resp.sampler_name)
    THEN resp.sampler_name.value[1]
    ELSE <<>>

\* comfyui_client.py:51-79: the value get_samplers stores and returns for the
\* answer resp.
get_samplers(resp) ==
    IF ObjectInfoRaises(resp) THEN ErrorSamplers
    ELSE IF Usable(resp.sampler_name) THEN resp.sampler_name.value[1]
    ELSE DefaultSamplers

\* comfyui_client.py:86-111, the same for get_schedulers.
get_schedulers(resp) ==
    IF ObjectInfoRaises(resp) THEN ErrorSchedulers
    ELSE IF Usable(resp.scheduler) THEN resp.scheduler.value[1]
    ELSE DefaultSchedulers

\* comfyui_client.py:46-52: a call of get_samplers up to its first await: the
\* cached list is returned, or GET /object_info is sent.
get_samplers_call ==
    /\ mpc = "idle"
    /\ IF Cached(samplers)
       THEN /\ returned' = <<"get_samplers", samplers[1]>>
            /\ UNCHANGED <<mpc, requests>>
       ELSE /\ mpc' = "get_samplers"
            /\ requests' = Append(requests, "get_samplers")
            /\ UNCHANGED returned
    /\ UNCHANGED <<samplers, schedulers, response>>
    /\ UNCHANGED <<qvars, dvars>>

get_samplers_done_errorNotCached ==
    /\ mpc = "get_samplers"
    /\ \E resp \in ObjectInfoResponses :
        /\ response' = resp
        /\ samplers' = IF ObjectInfoRaises(resp) THEN samplers ELSE Some(get_samplers(resp))
        /\ returned' = <<"get_samplers", get_samplers(resp)>>
    /\ mpc' = "idle"
    /\ UNCHANGED <<schedulers, requests>>
    /\ UNCHANGED <<qvars, dvars>>

\* comfyui_client.py:52-79: get_object_info returned or raised.
get_samplers_done ==
    /\ mpc = "get_samplers"
    /\ \E resp \in ObjectInfoResponses :
        /\ response' = resp
        /\ samplers' = Some(get_samplers(resp))
        /\ returned' = <<"get_samplers", get_samplers(resp)>>
    /\ mpc' = "idle"
    /\ UNCHANGED <<schedulers, requests>>
    /\ UNCHANGED <<qvars, dvars>>

\* comfyui_client.py:81-87
get_schedulers_call ==
    /\ mpc = "idle"
    /\ IF Cached(schedulers)
       THEN /\ returned' = <<"get_schedulers", schedulers[1]>>
            /\ UNCHANGED <<mpc, requests>>
       ELSE /\ mpc' = "get_schedulers"
            /\ requests' = Append(requests, "get_schedulers")
            /\ UNCHANGED returned
    /\ UNCHANGED <<samplers, schedulers, response>>
    /\ UNCHANGED <<qvars, dvars>>

\* comfyui_client.py:87-111
get_schedulers_done ==
    /\ mpc = "get_schedulers"
    /\ \E resp \in ObjectInfoResponses :
        /\ response' = resp
        /\ schedulers' = Some(get_schedulers(resp))
        /\ returned' = <<"get_schedulers", get_schedulers(resp)>>
    /\ mpc' = "idle"
    /\ UNCHANGED <<samplers, requests>>
    /\ UNCHANGED <<qvars, dvars>>

----------------------------------------------------------------------------
(* Specifications *)

\* What the event loop runs once the bot is started by bot.run (main.py:925):
\* the interaction handlers and the process_queue tasks they and process_queue
\* itself create.
BotNext ==
    \/ \E j \in Jobs : comfy_command(j)
    \/ \E j \in Jobs : modal_submit(j)
    \/ \E j \in Jobs : AckSent(j)
    \/ \E j \in Jobs : AckFailed(j)
    \/ process_queue_start
    \/ \E j \in Jobs : submit_done(j)
    \/ \E j \in Jobs : wait_done(j)
    \/ \E j \in Jobs : wait_connected(j)
    \/ \E j \in Jobs : wait_fallback(j)
    \/ \E j \in Jobs : fetch_done(j)
    \/ \E j \in Jobs : send_success_done(j)
    \/ \E j \in Jobs : send_timeout_done(j)
    \/ \E j \in Jobs : send_error_done(j)

\* The same with the sweeps of queue_cleanup_task.
Next == BotNext \/ queue_cleanup_task

Spec == Init /\ [][Next]_vars

\* The event loop runs every task that is ready, and every await of the model
\* ends: generate_image and the success send are cut off by asyncio.timeout(300),
\* the Discord calls return or raise.  Nothing obliges a requester to issue a
\* request, and a sweep comes only if queue_cleanup_task was started: neither
\* gets a fairness condition.
Fairness ==
    /\ WF_vars(process_queue_start)
    /\ \A j \in Jobs : WF_vars(AckSent(j) \/ AckFailed(j))
    /\ \A j \in Jobs : WF_vars(submit_done(j))
    /\ \A j \in Jobs : WF_vars(wait_done(j))
    /\ \A j \in Jobs : WF_vars(fetch_done(j))
    /\ \A j \in Jobs : WF_vars(send_success_done(j))
    /\ \A j \in Jobs : WF_vars(send_timeout_done(j))
    /\ \A j \in Jobs : WF_vars(send_error_done(j))

LiveSpec == Init /\ [][Next]_vars /\ Fairness

\* The program under the one scheduling assumption that dispatch needs: the event
\* loop eventually runs a process_queue task that asyncio.create_task created
\* (main.py:327, 851, 267, 907).
DispatchSpec == Init /\ [][Next]_vars /\ WF_vars(process_queue_start)

\* The program as its entry point runs it (main.py:917-925): bot.run starts the
\* bot; main_async (main.py:911-915), the only place that creates
\* queue_cleanup_task, is never called, so no sweep ever runs.
BotRunSpec == Init /\ [][BotNext]_vars /\ Fairness

\* The program with one more way for a process_queue run to end: an error in
\* the statements between the test-and-set and the try block.
FaultNext == Next \/ process_queue_raise

FaultSpec == Init /\ [][FaultNext]_vars

\* One call of wait_for_completion against a backend and a stream that may do
\* anything the code can observe.
WaitNext ==
    \/ wait_for_completion
    \/ backend_stores_history
    \/ connect_ok
    \/ connect_failed
    \/ recv_timeout
    \/ recv_failed
    \/ recv_executed
    \/ recv_status
    \/ recv_progress
    \/ recv_execution_error
    \/ recv_badjson
    \/ recv_binary
    \/ history_263
    \/ history_270
    \/ history_281
    \/ history_321
    \/ sleep_326

WaitSpec == Init /\ [][WaitNext]_vars

\* Every await of the call ends: websockets.connect has its opening timeout,
\* recv the 5 s of wait_for, get_history the ClientTimeout(total=10), and
\* asyncio.sleep(2) returns.  Nothing obliges the backend to finish the prompt
\* or the stream to deliver a frame.
WaitLiveSpec == Init /\ [][WaitNext]_vars /\ WF_vars(WaitNext)

WaitTypeOK ==
    /\ wpc \in WaitStates
    /\ websocket \in {"none", "open", "closed"}
    /\ now \in Nat
    /\ start_time \in Nat
    /\ queue_remaining \in {None, Some(0), Some(1)}
    /\ finished_nodes \subseteq Nodes
    /\ message \in Frames \cup {NoMessage, ConnectionClosed}
    /\ history \in Records \cup {NoQuery}
    /\ backend_history \in Records
    /\ result \in {NoResult}
           \cup {Result(TRUE, o, "success") : o \in {"{}", "imgA", "imgB"}}
           \cup {Result(FALSE, "None", c) : c \in {"timeout", "execution_error"}}


\* The metadata calls of the client object, made one at a time as
\* fetch_comfyui_options does (main.py:146-157).
MetaNext ==
    \/ get_samplers_call
    \/ get_samplers_done
    \/ get_schedulers_call
    \/ get_schedulers_done

MetaSpec == Init /\ [][MetaNext]_vars

----------------------------------------------------------------------------
(* Claims *)

Popped(j) == stage[j] \in InFlightStages \cup {"done", "crashed"}

ResultsOf(j) == {i \in DOMAIN sink : sink[i][1] = j}

\* C1: in every reachable state at most one job is running, i.e. popped from
\* task_queue by a process_queue run that has not finished.
C1_AtMostOneRunning == Cardinality(Running) <= 1

\* C1 witness: a job is running while another is pending, a further
\* process_queue task is waiting to start and an enqueue handler is mid-way.
C1_Witness ==
    /\ Cardinality(Running) = 1
    /\ task_queue # <<>>
    /\ triggers > 0
    /\ \E j \in Jobs : handler[j] = "ack"
    /\ sweeps > 0

\* C2: jobs are dispatched and their Results arrive in the order of the appends:
\* a job is popped only when every job appended before it has finished its run
\* (its Result sent, or the send failed), and the Results in the sink are in
\* enqueue order.
C2_FifoOrder ==
    /\ \A a, b \in Jobs :
         (a < b /\ Popped(b)) => stage[a] \in {"none", "done"}
    /\ \A i, k \in DOMAIN sink : i < k => sink[i][1] <= sink[k][1]

\* C2 witness: the first job's Result was delivered and the job enqueued after
\* it is in flight, about to have its own Result sent.
C2_Witness ==
    \E a, b \in Jobs :
        /\ a < b
        /\ ResultsOf(a) # {}
        /\ stage[a] = "done"
        /\ stage[b] = "send_ok"

\* C3: every enqueued job is eventually popped and its run finished (its sink
\* notified), under fair scheduling of the tasks and awaits that all end.
C3_EveryJobResolved == \A j \in Jobs : (stage[j] = "queued") ~> (stage[j] = "done")

\* C4: the sink of a job receives at most one Result.
C4_AtMostOneResult == \A j \in Jobs : Cardinality(ResultsOf(j)) <= 1

\* C5: when the run of a popped job has ended, by whatever error, and no other
\* run is in progress, is_generating has been cleared.
C5_ErrorClearsFlag ==
    \A j \in Jobs :
        (stage[j] \in {"done", "crashed"} /\ Running = {}) => ~is_generating

C7_EnqueuePosition ==
    [][\A j \in Jobs :
          (stage[j] = "none" /\ stage'[j] = "queued") =>
              /\ task_queue' = Append(task_queue, j)
              /\ queue_position'[j] = Len(task_queue')
              /\ task_queue'[queue_position'[j]] = j]_vars

\* C7 witness: a job enqueued while another one is in flight was told position 1.
C7_Witness ==
    \E k, j \in Jobs :
        /\ stage[k] \in InFlightStages
        /\ stage[j] = "queued"
        /\ handler[j] = "ack"
        /\ queue_position[j] = 1

\* C8: an enqueue handler that ends while the queue is idle and its job is
\* pending has created a process_queue task, whether its acknowledgement was
\* sent or not.
C8_EnqueueTriggers ==
    [][\A j \in Jobs :
          (handler[j] = "ack" /\ handler'[j] = "done"
             /\ ~is_generating /\ stage[j] = "queued") =>
              triggers' = triggers + 1]_vars

\* C9: the step that ends a job's run (after the success, failure or timeout
\* send) clears is_generating and, when task_queue is non-empty, creates the
\* process_queue task that then finds the queue dispatchable.
C9_SelfRearm ==
    [][\A j \in Jobs :
          (stage[j] \in InFlightStages /\ stage'[j] = "done") =>
              /\ ~is_generating'
              /\ task_queue # <<>> =>
                   /\ triggers' = triggers + 1
                   /\ CanDispatch(is_generating', task_queue')]_vars

\* C9 witness: a run ended through the timeout branch with a job pending; the
\* flag is down and a process_queue task is ready though every enqueue trigger
\* was consumed or never created and no sweep ran.
C9_Witness ==
    /\ \E j \in Jobs : stage[j] = "done" /\ <<j, "timeout">> \in {sink[i] : i \in DOMAIN sink}
    /\ ~is_generating
    /\ task_queue # <<>>
    /\ triggers = 1
    /\ sweeps = 0
    /\ \A j \in Jobs : handler[j] # "ack"

\* C10: a sweep that finds is_generating false and task_queue non-empty creates
\* a process_queue task, and a process_queue task that is ready while the queue
\* is idle and non-empty leads to the head job being popped.
C10_WatchdogDispatch ==
    /\ [][(sweeps' = sweeps + 1 /\ ~is_generating /\ task_queue # <<>>) =>
             triggers' = triggers + 1]_vars
    /\ \A j \in Jobs :
         (triggers > 0 /\ ~is_generating /\ task_queue # <<>> /\ Head(task_queue) = j)
             ~> Popped(j)

\* C10 witness: one request was enqueued, nothing is in flight, and a sweep has
\* added a process_queue task to the one of the enqueue.
C10_Witness ==
    /\ sweeps = 1
    /\ triggers = 2
    /\ ~is_generating
    /\ task_queue = <<1>>
    /\ \A j \in Jobs : j > 1 => handler[j] = "idle"

\* C11: a process_queue task that starts while is_generating is true or
\* task_queue is empty pops nothing, leaves flag, queue, every job's stage and
\* the sink as they are; and a job enters its run only from task_queue, by the
\* start of a process_queue task that takes it out of the queue, so that
\* duplicate triggers never dispatch a job twice.
C11_TriggerNoOp ==
    /\ [][(triggers' = triggers - 1 /\ (is_generating \/ task_queue = <<>>)) =>
             UNCHANGED <<task_queue, is_generating, stage, sink, exc>>]_vars
    /\ [][\A j \in Jobs :
             (stage'[j] = "submit" /\ stage[j] # "submit") =>
                 /\ stage[j] = "queued"
                 /\ triggers' = triggers - 1
                 /\ \A i \in DOMAIN task_queue' : task_queue'[i] # j]_vars

\* C11 witness: the first job is in flight, the second is pending although its
\* handler has ended, and the sweep's and the handlers' process_queue tasks are
\* all used up.
C11_Witness ==
    /\ stage[1] \in InFlightStages
    /\ stage[2] = "queued"
    /\ handler[2] = "done"
    /\ triggers = 0
    /\ sweeps = 1

\* C12: when the 300 s budget expires in whichever await of the run (submit,
\* completion wait, artifact fetch, success send), the run goes to the timeout
\* branch; the step that ends that branch puts at most the job's Timeout Result
\* into the sink, clears is_generating and re-arms the dispatch when a job is
\* pending.
C12_BudgetExpiry ==
    /\ [][\A j \in Jobs :
             (exc[j] = "none" /\ exc'[j] # "none" /\ exc'[j][2] = "budget") =>
                 stage'[j] = "send_timeout"]_vars
    /\ [][\A j \in Jobs :
             (stage[j] = "send_timeout" /\ stage'[j] # "send_timeout") =>
                 /\ stage'[j] = "done"
                 /\ sink' \in {sink, Append(sink, <<j, "timeout">>)}
                 /\ ~is_generating'
                 /\ task_queue # <<>> => triggers' = triggers + 1]_vars

\* C12 witness: the first job got its Timeout Result and the next one was
\* dispatched, its own budget expiring during the artifact fetch.
C12_Witness ==
    /\ stage[1] = "done"
    /\ sink = <<(<<1, "timeout">>)>>
    /\ stage[2] = "send_timeout"
    /\ exc[2] = <<"fetch", "budget">>

\* The record's outputs as a caller of get_history reads them: the value under
\* 'outputs', an empty mapping when the record has no such key.
OutputsOf(rec) == IF rec.has_outputs THEN rec.outputs ELSE "{}"

\* comfyui_client.py:238-244: the step in which websocket.recv() returns a
\* frame of type t (a step of the call, not of the backend).
FrameReceived(t) ==
    /\ wpc = "recv"
    /\ backend_history' = backend_history
    /\ message'.type = t

Polling == {"history_321", "sleep_326"}

Verifying == {"history_263", "history_270", "history_281"}

\* C13: wait_for_completion returns success only in the step in which a
\* get_history call returns, on the streaming and on the polling path; the
\* record that call returned is not empty, and the outputs returned are the
\* outputs of that record.
C13_SuccessVerified ==
    /\ [][(result'.success /\ ~result.success) =>
             /\ wpc \in Verifying \cup {"history_321"}
             /\ history'.present
             /\ result'.outputs = OutputsOf(history')]_vars
    /\ [](result.success =>
             /\ wpc = "returned"
             /\ history.present
             /\ result.outputs = OutputsOf(history))

\* C13 witness: success on the streaming path from a populated record that has
\* no outputs key, after an earlier query had come back empty.
C13_Witness ==
    /\ result = Result(TRUE, "{}", "success")
    /\ history = Record(TRUE, FALSE, "None")
    /\ websocket = "closed"
    /\ message.type = "executed"
    /\ now - start_time > RecvTimeout

\* C14: an executed frame of the awaited job that lists an artifact makes the
\* detector query the history, and when that query returns a populated record
\* the call returns success with the outputs of that record.
C14_ArtifactEvent ==
    /\ [][(FrameReceived("executed") /\ message'.prompt_id # "other" /\ message'.images) =>
             /\ wpc' = "history_263"
             /\ result' = result]_vars
    /\ [][(wpc = "history_263" /\ wpc' # "history_263" /\ message.images
              /\ history'.present) =>
             /\ wpc' = "returned"
             /\ result' = Result(TRUE, OutputsOf(history'), "success")]_vars

\* C14 witness: the call returned the outputs imgB after an executed frame of
\* its own prompt with an artifact listing, the counter never reported.
C14_Witness ==
    /\ wpc = "returned"
    /\ message = Frame("executed", "mine", "n1", TRUE, None)
    /\ queue_remaining = None
    /\ history = Record(TRUE, TRUE, "imgB")
    /\ result = Result(TRUE, "imgB", "success")

\* C15: a status frame with queue_remaining 0 leads to a history query exactly
\* when a node of the job was recorded as finished before; with the finished-set
\* empty it makes no query and no success.  A populated answer to the query
\* made for a status frame returns success.
C15_StatusZero ==
    /\ [][(FrameReceived("status") /\ message'.queue_remaining = Some(0)) =>
             IF finished_nodes = {}
             THEN /\ wpc' # "history_281"
                  /\ history' = history
                  /\ ~result'.success
             ELSE wpc' = "history_281"]_vars
    /\ [](wpc = "history_281" => finished_nodes # {} /\ queue_remaining = Some(0))
    /\ [][(wpc = "history_281" /\ wpc' # "history_281" /\ history'.present) =>
             result' = Result(TRUE, OutputsOf(history'), "success")]_vars

\* C15 witness: success after a status frame with queue_remaining 0 that came
\* after a node had finished.
C15_Witness ==
    /\ wpc = "returned"
    /\ message = Frame("status", "absent", "None", FALSE, Some(0))
    /\ finished_nodes = {"n1"}
    /\ result = Result(TRUE, "imgA", "success")

\* C16: an executed frame of the awaited job without a node id makes the
\* detector query the history; a populated answer returns success with the
\* record's outputs, an empty answer leaves the detector listening (a second
\* query for the same frame, the next recv, or the budget check of the loop).
C16_TerminalMarker ==
    /\ [][(FrameReceived("executed") /\ message'.prompt_id # "other"
              /\ message'.node = "None") =>
             wpc' \in {"history_263", "history_270"}]_vars
    /\ [][(wpc \in {"history_263", "history_270"} /\ wpc' # wpc /\ message.node = "None") =>
             IF history'.present
             THEN result' = Result(TRUE, OutputsOf(history'), "success")
             ELSE \/ wpc = "history_263" /\ wpc' = "history_270" /\ result' = result
                  \/ wpc = "history_270" /\ wpc' = "recv" /\ result' = result
                  \/ /\ wpc = "history_270"
                     /\ result' = Result(FALSE, "None", "timeout")
                     /\ now' - start_time > TimeoutBudget]_vars

\* C16 witness: success on a terminal marker that lists no artifact, the
\* counter never reported.
C16_Witness ==
    /\ wpc = "returned"
    /\ message = Frame("executed", "absent", "None", FALSE, None)
    /\ queue_remaining = None
    /\ finished_nodes = {}
    /\ result = Result(TRUE, "imgA", "success")

\* C17: the step that receives an execution_error frame returns (False, None)
\* without a history query and without going to the polling loop, and a call
\* that returned does nothing more.
C17_ExecutionError ==
    /\ [][FrameReceived("execution_error") =>
             /\ wpc' = "returned"
             /\ result' = Result(FALSE, "None", "execution_error")
             /\ history' = history]_vars
    /\ [][wpc = "returned" => UNCHANGED dvars]_vars

\* C17 witness: the call returned failure on an execution_error frame that
\* came after a node had finished, with no history query ever made.
C17_Witness ==
    /\ wpc = "returned"
    /\ message.type = "execution_error"
    /\ finished_nodes = {"n1"}
    /\ history = NoQuery
    /\ result = Result(FALSE, "None", "execution_error")

\* C18: a progress frame, a frame of unknown type and a frame that is not JSON
\* (text or bytes) leave the finished-set, the counter and the outcome as they
\* were, make no history query and leave the detector listening (the next
\* thing it can do is the budget check of the loop).
C18_NoTransition ==
    [][(/\ wpc = "recv"
        /\ backend_history' = backend_history
        /\ message'.type \in {"progress", "unknown", "badjson", "binary"}) =>
          /\ finished_nodes' = finished_nodes
          /\ queue_remaining' = queue_remaining
          /\ history' = history
          /\ \/ wpc' = "recv" /\ result' = result
             \/ /\ result' = Result(FALSE, "None", "timeout")
                /\ now' - start_time > TimeoutBudget]_vars

\* C19: a connect that fails and a recv that raises take the call to the
\* polling loop; from there it only polls and sleeps, opens and reads no stream,
\* and leaves the loop only by returning success or timeout.
C19_PollingFallback ==
    /\ [][(wpc = "connect" /\ wpc' # "connect" /\ websocket' # "open") =>
             wpc' = "history_321" /\ websocket' = "none"]_vars
    /\ [][(wpc = "recv" /\ message' = ConnectionClosed) =>
             wpc' = "history_321" /\ websocket' = "closed"]_vars
    /\ [][(wpc \in Polling) =>
             /\ wpc' \in Polling \cup {"returned"}
             /\ websocket' = websocket
             /\ message' = message
             /\ (wpc' = "returned" => result'.cause \in {"success", "timeout"})]_vars

\* C19 witness: the stream broke while the detector was listening, and the call
\* is now between two polls.
C19_Witness ==
    /\ wpc = "sleep_326"
    /\ websocket = "closed"
    /\ message = ConnectionClosed
    /\ finished_nodes = {"n1"}
    /\ history = EmptyRecord

\* C20: in the polling loop the poll that gets a populated record returns
\* success with that record's outputs, every other poll goes to the sleep, and
\* the loop returns timeout only when more than the budget has passed since it
\* started.
C20_PollSuccess ==
    /\ [][(wpc = "history_321" /\ wpc' # "history_321") =>
             IF history'.present /\ history'.has_outputs
             THEN /\ wpc' = "returned"
                  /\ result' = Result(TRUE, history'.outputs, "success")
             ELSE /\ wpc' = "sleep_326"
                  /\ result' = result]_vars
    /\ [][(wpc \in Polling /\ wpc' = "returned" /\ ~result'.success) =>
             /\ result' = Result(FALSE, "None", "timeout")
             /\ now' - start_time > TimeoutBudget]_vars

\* C20 witness: the stream could not be opened, the first polls found nothing,
\* and a poll at least two intervals into the loop returned the record.
C20_Witness ==
    /\ wpc = "returned"
    /\ websocket = "none"
    /\ now - start_time >= 2 * PollInterval
    /\ now - start_time <= TimeoutBudget
    /\ history = Record(TRUE, TRUE, "imgB")
    /\ result = Result(TRUE, "imgB", "success")

\* C21: a recv that ends by its 5 s sub-timeout is followed by the budget check:
\* the call returns timeout exactly when more than the budget has passed since
\* start_time, which is then no more than the budget plus one sub-timeout; and
\* a call whose stream stays silent from some point on returns.
C21_SilentStream ==
    /\ [][(wpc = "recv" /\ message' = NoMessage /\ backend_history' = backend_history) =>
             IF now' - start_time > TimeoutBudget
             THEN /\ wpc' = "returned"
                  /\ result' = Result(FALSE, "None", "timeout")
                  /\ now' - start_time <= TimeoutBudget + RecvTimeout
             ELSE wpc' = "recv" /\ result' = result]_vars
    /\ [](wpc = "recv" => now - start_time <= TimeoutBudget)
    /\ (<>[](message \in {NoMessage, ConnectionClosed}) => <>(wpc = "returned"))

\* C21 witness: the stream never delivered a frame, no history query was made,
\* and the call returned timeout after its second silent recv.
C21_Witness ==
    /\ wpc = "returned"
    /\ websocket = "closed"
    /\ message = NoMessage
    /\ history = NoQuery
    /\ now - start_time = 2 * RecvTimeout
    /\ result = Result(FALSE, "None", "timeout")

\* C22: the polling loop measures the budget from the entry of the call (the
\* clock `now` is 0 there): its check after a sleep returns timeout as soon as
\* more than the budget has passed since the entry, however long the call had
\* been listening before it fell back to polling.
C22_SharedBudget ==
    [][(wpc = "sleep_326" /\ wpc' # "sleep_326" /\ now' > TimeoutBudget) =>
          /\ wpc' = "returned"
          /\ result' = Result(FALSE, "None", "timeout")]_vars

\* C23: while the call is in the polling loop its stream connection is not
\* open: the first get_history of the loop is issued with the connection
\* closed, or never opened.
C23_StreamXorPoller ==
    /\ [](wpc \in Polling => websocket # "open")
    /\ [][(wpc \notin Polling /\ wpc' \in Polling) =>
             /\ wpc' = "history_321"
             /\ websocket' = IF websocket = "open" THEN "closed" ELSE "none"]_vars

\* C23 witness: the first poll is under way after a frame of undecodable bytes
\* ended the listening; the connection that delivered it is closed.
C23_Witness ==
    /\ wpc = "history_321"
    /\ message.type = "binary"
    /\ websocket = "closed"
    /\ start_time = now
    /\ now > 0

OpenStreams == {j \in Jobs : stream[j] = "open"}

\* C24: the step in which a run's completion wait ends by a timeout (the wait
\* returning failure, or the 300 s of the run expiring during it) leaves the
\* run's stream closed, delivers nothing and keeps is_generating set; whenever
\* a Result is delivered or the flag is cleared no stream is open; at most one
\* stream is open at any time, and only that of a job in its completion wait.
C24_StreamReleased ==
    /\ [][\A j \in Jobs :
             (stage[j] = "wait" /\ stage'[j] \in {"send_timeout", "send_err"}) =>
                 /\ stream'[j] # "open"
                 /\ sink' = sink
                 /\ is_generating']_vars
    /\ [][(sink' # sink \/ (is_generating /\ ~is_generating')) =>
             \A k \in Jobs : stream[k] # "open" /\ stream'[k] # "open"]_vars
    /\ [](Cardinality(OpenStreams) <= 1)
    /\ [](\A j \in OpenStreams : stage[j] = "wait" /\ is_generating)

\* C24 witness: the first job got its Timeout Result, the second one's
\* completion wait ended in failure; no stream is left open.
C24_Witness ==
    /\ sink = <<(<<1, "timeout">>)>>
    /\ stage[2] = "send_err"
    /\ exc[2] = <<"wait", "error">>
    /\ is_generating
    /\ OpenStreams = {}

\* C25: a call entered with the history record of its prompt already stored
\* (the backend finished before the subscription was opened) returns success,
\* unless the stream reports an execution error.
C25_CompletionNotLost ==
    (wpc = "connect" /\ backend_history.present /\ backend_history.has_outputs)
        ~> (result.success \/ result.cause = "execution_error")

\* C26: queue_prompt returns a prompt id exactly for an answer with status 200
\* and a non-empty prompt_id; when the submit fails the run goes to one of its
\* except branches with no stream subscription, never reaches the completion
\* wait or the artifact fetch, and delivers at most a failure or timeout Result.
C26_SubmitFailure ==
    /\ [](\A resp \in PromptResponses :
             queue_prompt(resp) = "prompt_id" <=>
                 /\ resp.transport = "ok"
                 /\ resp.status = 200
                 /\ resp.prompt_id \notin {"", "absent"})
    /\ [][\A j \in Jobs :
             (stage[j] = "submit" /\ stage'[j] # "submit") =>
                 \/ stage'[j] = "wait" /\ exc'[j] = "none"
                 \/ /\ stage'[j] \in {"send_timeout", "send_err"}
                    /\ exc'[j] # "none"
                    /\ exc'[j][1] = "submit"]_vars
    /\ [](\A j \in Jobs :
             (exc[j] # "none" /\ exc[j][1] = "submit") =>
                 /\ stage[j] \in {"send_timeout", "send_err"}
                 /\ stream[j] = "none")
    /\ [][\A j \in Jobs :
             (exc[j] # "none" /\ exc[j][1] = "submit" /\ stage'[j] # stage[j]) =>
                 /\ stage'[j] = "done"
                 /\ sink' \in {sink, Append(sink, <<j, "failure">>),
                               Append(sink, <<j, "timeout">>)}]_vars

\* C26 witness: the first job's submit failed and its failure Result was
\* delivered; the second job is between its failed submit and its Result.
C26_Witness ==
    /\ stage[1] = "done"
    /\ sink = <<(<<1, "failure">>)>>
    /\ stage[2] = "send_err"
    /\ exc[2] = <<"submit", "error">>

\* C27: get_history returns a record for every answer of the backend and the
\* empty record for a transport error, a status other than 200, a body that is
\* no JSON object and a body without the prompt id; in the detector every
\* query ends with a record in hand and the call in one of its ordinary states.
C27_HistoryNeverFails ==
    /\ [](\A resp \in HistoryResponses(backend_history) :
             /\ get_history(resp) \in Records
             /\ (resp.transport # "ok" \/ resp.status # 200 \/ resp.body # "keyed") =>
                    get_history(resp) = EmptyRecord)
    /\ [][(wpc \in Verifying \cup {"history_321"} /\ wpc' # wpc) =>
             /\ history' \in Records
             /\ wpc' \in WaitStates \ {"idle", "connect"}
             /\ result'.cause \in {"pending", "success", "timeout"}]_vars

\* C27 witness: the backend holds the record, the poll that asked for it got
\* the empty record, and the polling loop goes on.
C27_Witness ==
    /\ wpc = "sleep_326"
    /\ backend_history = Record(TRUE, TRUE, "imgA")
    /\ history = EmptyRecord
    /\ result = NoResult

\* C28: a get_samplers or get_schedulers call that asked the backend ends by
\* returning a list; when the request failed, the status was not 200, or the
\* field was absent or empty, the list is one of the hard-coded non-empty
\* defaults; and no step of a metadata call touches the queue or a Result.
C28_MetadataDefaults ==
    /\ [][(mpc = "get_samplers" /\ mpc' # "get_samplers") =>
             /\ mpc' = "idle"
             /\ returned'[1] = "get_samplers"
             /\ (\/ response'.transport # "ok"
                 \/ response'.status # 200
                 \/ ~response'.sampler_name.present
                 \/ response'.sampler_name.value = <<>>) =>
                    /\ returned'[2] \in {DefaultSamplers, ErrorSamplers}
                    /\ Len(returned'[2]) > 0]_vars
    /\ [][(mpc = "get_schedulers" /\ mpc' # "get_schedulers") =>
             /\ mpc' = "idle"
             /\ returned'[1] = "get_schedulers"
             /\ (\/ response'.transport # "ok"
                 \/ response'.status # 200
                 \/ ~response'.scheduler.present
                 \/ response'.scheduler.value = <<>>) =>
                    /\ returned'[2] \in {DefaultSchedulers, ErrorSchedulers}
                    /\ Len(returned'[2]) > 0]_vars
    /\ [][mvars' # mvars => UNCHANGED qvars]_vars

\* C28 witness: the sampler list came from the backend; the request of
\* get_schedulers failed and it returned its short default list.
C28_Witness ==
    /\ samplers = Some(<<"euler", "res_2s">>)
    /\ response.transport = "failed"
    /\ returned = <<"get_schedulers", ErrorSchedulers>>
    /\ schedulers = Some(ErrorSchedulers)

\* C29: once a list is cached it is never replaced; a later call returns the
\* cached list and sends no request for it.
C29_MetadataCached ==
    /\ [][samplers # None =>
             /\ samplers' = samplers
             /\ mpc' # "get_samplers"
             /\ requests' \in {requests, Append(requests, "get_schedulers")}
             /\ (returned' # returned /\ returned'[1] = "get_samplers") =>
                    returned'[2] = samplers[1]]_vars
    /\ [][schedulers # None =>
             /\ schedulers' = schedulers
             /\ mpc' # "get_schedulers"
             /\ requests' \in {requests, Append(requests, "get_samplers")}
             /\ (returned' # returned /\ returned'[1] = "get_schedulers") =>
                    returned'[2] = schedulers[1]]_vars

\* C29 witness: get_samplers returned its cached list although the backend's
\* latest answer (to the scheduler request) lists other samplers.
C29_Witness ==
    /\ samplers = Some(<<"lcm">>)
    /\ returned = <<"get_samplers", <<"lcm">>>>
    /\ response.transport = "ok"
    /\ response.status = 200
    /\ response.sampler_name = Field(TRUE, <<(<<"euler", "res_2s">>)>>)
    /\ requests = <<"get_samplers", "get_schedulers">>

\* The order in which a run passes through its stages.
StageRank(st) ==
    CASE st = "none" -> 0
      [] st = "queued" -> 1
      [] st = "submit" -> 2
      [] st = "wait" -> 3
      [] st = "fetch" -> 4
      [] st \in {"send_ok", "send_timeout", "send_err"} -> 5
      [] st \in {"done", "crashed"} -> 6

\* C30: a job is submitted only in the step that dispatches it and its artifact
\* is fetched only in the step that ends its completion wait; a job never goes
\* back to an earlier stage, so each of the two calls is made at most once; and
\* a failed submit or fetch takes the run to an except branch, whose end
\* delivers at most a failure or timeout Result.
C30_NoRetry ==
    /\ [][\A j \in Jobs :
             /\ (stage'[j] = "submit" /\ stage[j] # "submit") => stage[j] = "queued"
             /\ (stage'[j] = "fetch" /\ stage[j] # "fetch") => stage[j] = "wait"
             /\ StageRank(stage'[j]) >= StageRank(stage[j])]_vars
    /\ [][\A j \in Jobs :
             (stage[j] \in {"submit", "fetch"} /\ stage'[j] # stage[j]
                 /\ exc'[j] # "none") =>
                 stage'[j] \in {"send_timeout", "send_err"}]_vars
    /\ [][\A j \in Jobs :
             (exc[j] # "none" /\ exc[j][1] \in {"submit", "fetch"}
                 /\ stage'[j] # stage[j]) =>
                 /\ stage'[j] = "done"
                 /\ sink' \in {sink, Append(sink, <<j, "failure">>),
                               Append(sink, <<j, "timeout">>)}]_vars

\* C30 witness: the first job's failure Result was delivered; the second job's
\* artifact fetch failed and its run is in the except branch.
C30_Witness ==
    /\ stage[1] = "done"
    /\ sink = <<(<<1, "failure">>)>>
    /\ stage[2] = "send_err"
    /\ exc[2] = <<"fetch", "error">>

SendStages == {"send_ok", "send_timeout", "send_err"}

\* C31: a run enters the completion wait only from submit, the artifact fetch
\* only from the completion wait and the success send only from the artifact
\* fetch, each time without an exception raised; a success Result is delivered
\* only by the step that ends the success send; every Result is delivered while
\* is_generating is still set; and the flag is cleared only by the step that
\* ends one of the sends of the run in flight.
C31_StageOrder ==
    /\ [][\A j \in Jobs :
             /\ (stage'[j] = "wait" /\ stage[j] # "wait") =>
                    (stage[j] = "submit" /\ exc'[j] = "none")
             /\ (stage'[j] = "fetch" /\ stage[j] # "fetch") =>
                    (stage[j] = "wait" /\ exc'[j] = "none")
             /\ (stage'[j] = "send_ok" /\ stage[j] # "send_ok") =>
                    (stage[j] = "fetch" /\ exc'[j] = "none")
             /\ (sink' = Append(sink, <<j, "success">>)) => stage[j] = "send_ok"]_vars
    /\ [][(sink' # sink) =>
             /\ is_generating
             /\ \E j \in Jobs : stage[j] \in SendStages /\ sink' = Append(sink, <<j, sink'[Len(sink')][2]>>)]_vars
    /\ [][(is_generating /\ ~is_generating') =>
             \E j \in Jobs : stage[j] \in SendStages /\ stage'[j] = "done"]_vars

\* C31 witness: the first job went through all stages and its success Result
\* was delivered before the flag was cleared; the second job is in its
\* artifact fetch.
C31_Witness ==
    /\ stage[1] = "done"
    /\ sink = <<(<<1, "success">>)>>
    /\ stage[2] = "fetch"
    /\ is_generating

\* C32: a Timeout Result is delivered for a job only when the 300 s budget of
\* its run expired (the completion-wait budget is part of it); a submit or an
\* artifact fetch that ended with a transport failure, the expiry of the HTTP
\* request's own deadline included, takes the run to the failure branch and
\* never to the timeout branch.
C32_TimeoutOnlyOnBudget ==
    /\ [][\A j \in Jobs :
             (sink' = Append(sink, <<j, "timeout">>)) =>
                 (exc[j] # "none" /\ exc[j][2] = "budget")]_vars
    /\ [][\A j \in Jobs :
             (stage[j] \in {"submit", "fetch"} /\ exc[j] = "none" /\ exc'[j] # "none"
                 /\ exc'[j][2] \in {"deadline", "error"}) =>
                 stage'[j] = "send_err"]_vars

\* C33: a get_history call that returns, on the streaming path or in the
\* polling loop, ends the wait with success exactly when the record it returned
\* is not empty, and the outputs returned are then the value under the record's
\* 'outputs' key, an empty mapping when the record has no such key: the same
\* record gives the same resolution and the same outputs on either path.
C33_SameCriterion ==
    [][(wpc \in Verifying \cup {"history_321"} /\ wpc' # wpc) =>
          IF history'.present
          THEN /\ wpc' = "returned"
               /\ result' = Result(TRUE, OutputsOf(history'), "success")
          ELSE ~result'.success]_vars

\* C34: whichever of the two conditions comes last starts a history query.  A
\* status frame that reports queue_remaining 0 when a node of the job has
\* finished starts the query of line 281; an executed frame of the job that
\* names a node and lists no artifact, received while the last queue_remaining
\* seen is 0, records the node and starts the query of line 263; and when
\* either query returns a record that is not empty the call returns success
\* with the outputs of that record.
C34_OrderIndependent ==
    /\ [][(FrameReceived("status") /\ message'.queue_remaining = Some(0)
              /\ finished_nodes # {}) =>
             /\ wpc' = "history_281"
             /\ queue_remaining' = Some(0)
             /\ result' = result]_vars
    /\ [][(FrameReceived("executed") /\ message'.prompt_id # "other"
              /\ message'.node # "None" /\ ~message'.images
              /\ queue_remaining = Some(0)) =>
             /\ wpc' = "history_263"
             /\ finished_nodes' = finished_nodes \cup {message'.node}
             /\ result' = result]_vars
    /\ [][(wpc \in {"history_263", "history_281"} /\ wpc' # wpc
              /\ queue_remaining = Some(0) /\ finished_nodes # {}
              /\ history'.present) =>
             /\ wpc' = "returned"
             /\ result' = Result(TRUE, OutputsOf(history'), "success")]_vars

\* C34 witness: queue_remaining 0 was seen first, while no node had finished;
\* the executed frame that came after it named a node, listed no artifact, and
\* its history query returned the populated record.
C34_Witness ==
    /\ result = Result(TRUE, "imgA", "success")
    /\ message = Frame("executed", "mine", "n1", FALSE, None)
    /\ queue_remaining = Some(0)
    /\ finished_nodes = {"n1"}
    /\ history = Record(TRUE, TRUE, "imgA")
    /\ websocket = "closed"

\* C35: the step that receives an executed frame carrying the prompt_id of
\* another job changes nothing the detector decides on: finished_nodes,
\* queue_remaining and the last history record stay as they were, no history
\* query is started and the call does not return success; the call goes back
\* to the top of its loop, where only the budget check can end it.
C35_ForeignEventIgnored ==
    [][(FrameReceived("executed") /\ message'.prompt_id = "other") =>
          /\ finished_nodes' = finished_nodes
          /\ queue_remaining' = queue_remaining
          /\ history' = history
          /\ wpc' \notin Verifying \cup Polling
          /\ \/ wpc' = "recv" /\ result' = result
             \/ /\ wpc' = "returned"
                /\ result' = Result(FALSE, "None", "timeout")
                /\ now' - start_time > TimeoutBudget]_vars

\* C35 witness: queue_remaining 0 was seen, then an executed frame of another
\* job arrived that names a node and lists an artifact; no node is recorded,
\* no history query was ever made and the call is listening again.
C35_Witness ==
    /\ wpc = "recv"
    /\ message = Frame("executed", "other", "n1", TRUE, None)
    /\ queue_remaining = Some(0)
    /\ finished_nodes = {}
    /\ history = NoQuery
    /\ result = NoResult

\* C36: when wait_for_completion returns to a run, the run goes on to the
\* artifact fetch exactly when the value returned is success with an outputs
\* mapping that holds an image record with a filename; on every other value
\* (failure, success with no or empty outputs, success with outputs that hold
\* no image with a filename) it goes to the failure branch without a fetch,
\* and that branch delivers at most a failure Result.  A run in the artifact
\* fetch or in the success send, and so every run that delivers a success
\* Result, got success with such an image from its wait.
C36_SuccessNeedsImage ==
    /\ [][\A j \in Jobs :
             (stage[j] = "wait" /\ stage'[j] # "wait" /\ waited'[j] # NotReturned) =>
                 IF waited'[j] = <<TRUE, "imgA">>
                 THEN /\ stage'[j] = "fetch"
                      /\ exc'[j] = "none"
                 ELSE /\ stage'[j] = "send_err"
                      /\ exc'[j] # "none"
                      /\ exc'[j] = <<"wait", "error">>
                      /\ sink' = sink]_vars
    /\ [](\A j \in Jobs :
             stage[j] \in {"fetch", "send_ok"} => waited[j] = <<TRUE, "imgA">>)
    /\ [][\A j \in Jobs :
             (sink' = Append(sink, <<j, "success">>)) =>
                 (stage[j] = "send_ok" /\ waited[j] = <<TRUE, "imgA">>)]_vars
    /\ [][\A j \in Jobs :
             (exc[j] # "none" /\ exc[j] = <<"wait", "error">> /\ stage'[j] # stage[j]) =>
                 /\ stage'[j] = "done"
                 /\ sink' \in {sink, Append(sink, <<j, "failure">>)}]_vars

\* C36 witness: the first job's wait returned success with an image, the image
\* was fetched and the success Result delivered; the second job's wait returned
\* success with outputs whose image record has no filename, and its run is in
\* the failure branch.
C36_Witness ==
    /\ stage[1] = "done"
    /\ sink = <<(<<1, "success">>)>>
    /\ stage[2] = "send_err"
    /\ waited[2] = <<TRUE, "noname">>
    /\ exc[2] # "none"

\* The requests that the calls of one metadata method sent to the backend.
RequestsOf(call) == {i \in DOMAIN requests : requests[i] = call}

\* C37: each metadata method queries the backend at most once in the life of
\* the client object: after its first return, which stores the list returned
\* whether it came from the backend or is a hard-coded fallback, the stored
\* list never changes, no further request is sent for it, and whatever the
\* method returns is the stored list.
C37_NeverRefetched ==
    /\ [](/\ Cardinality(RequestsOf("get_samplers")) <= 1
          /\ Cardinality(RequestsOf("get_schedulers")) <= 1)
    /\ [](returned # <<>> =>
             /\ returned[1] = "get_samplers" => samplers = <<returned[2]>>
             /\ returned[1] = "get_schedulers" => schedulers = <<returned[2]>>)
    /\ [][/\ samplers # <<>> => (samplers' = samplers /\ mpc' # "get_samplers")
          /\ schedulers # <<>> => (schedulers' = schedulers /\ mpc' # "get_schedulers")]_vars

\* C37 witness: the request of get_samplers failed and the short fallback list
\* was returned; the backend then answered the request of get_schedulers with
\* its own sampler and scheduler lists; a later call of get_samplers returned
\* the fallback list again, and the backend was asked once per method.
C37_Witness ==
    /\ samplers = <<ErrorSamplers>>
    /\ schedulers = <<(<<"beta">>)>>
    /\ response.transport = "ok"
    /\ response.status = 200
    /\ response.sampler_name = Field(TRUE, <<(<<"lcm">>)>>)
    /\ returned = <<"get_samplers", ErrorSamplers>>
    /\ requests = <<"get_samplers", "get_schedulers">>
    /\ mpc = "idle"

====
